---- MODULE Spec2Model ----
(***************************************************************************)
(* Model of exchange-outpost-abi's FunctionArgs (src/rust/src/fin_data.rs): *)
(* the read-only view a plugin function gets of its inbound payload, with  *)
(* the typed call-argument accessor get_call_argument::<T> (direct decode, *)
(* then string re-parse), the ticker accessors and the pipe accessors.     *)
(*                                                                         *)
(* Text is a sequence of one-character strings, so that parsing a text as  *)
(* JSON is a computation over its characters.  A serde_json::Value is a    *)
(* tagged record; a decoded value of target type T is a record tagged with *)
(* the name of T.                                                          *)
(***************************************************************************)
EXTENDS Integers, Sequences, FiniteSets, TLC

(***************************************************************************)
(* Characters and numbers                                                  *)
(***************************************************************************)
Digits == {"0", "1", "2", "3", "4", "5", "6", "7", "8", "9"}

DigitVal(c) ==
  CASE c = "0" -> 0 [] c = "1" -> 1 [] c = "2" -> 2 [] c = "3" -> 3
    [] c = "4" -> 4 [] c = "5" -> 5 [] c = "6" -> 6 [] c = "7" -> 7
    [] c = "8" -> 8 [] c = "9" -> 9

\* JSON insignificant whitespace
Whitespace == {" ", "\t", "\n", "\r"}

MaxI32 == 2147483647
MinI32 == -MaxI32 - 1

\* The digits of a magnitude accumulated as a negative i32, as far as it fits.
RECURSIVE NegAcc(_, _, _)
NegAcc(digs, i, acc) ==
  IF i > Len(digs) THEN [ok |-> TRUE, v |-> acc]
  ELSE LET d == DigitVal(digs[i])
       IN  IF acc < (MinI32 + d + 9) \div 10
             THEN [ok |-> FALSE, v |-> 0]
             ELSE NegAcc(digs, i + 1, acc * 10 - d)

\* An integer literal as i32: out of range is an error.
I32Of(neg, digs) ==
  LET r == NegAcc(digs, 1, 0)
  IN  IF ~r.ok THEN [ok |-> FALSE, v |-> 0]
      ELSE IF neg THEN [ok |-> TRUE, v |-> r.v]
      ELSE IF r.v = MinI32 THEN [ok |-> FALSE, v |-> 0]
      ELSE [ok |-> TRUE, v |-> -r.v]

RECURSIVE NatOf(_, _, _)
NatOf(digs, i, acc) ==
  IF i > Len(digs) THEN acc ELSE NatOf(digs, i + 1, acc * 10 + DigitVal(digs[i]))

RECURSIVE StripLeadingZeros(_)
StripLeadingZeros(digs) ==
  IF digs # <<>> /\ Head(digs) = "0" THEN StripLeadingZeros(Tail(digs)) ELSE digs

\* A decimal magnitude digs * 10^e with no leading and no trailing zero digit.
RECURSIVE NormDec(_, _, _)
NormDec(neg, digs, e) ==
  LET d == StripLeadingZeros(digs)
  IN  IF d = <<>> THEN [neg |-> neg, digs |-> <<>>, e |-> 0]
      ELSE IF d[Len(d)] = "0" THEN NormDec(neg, SubSeq(d, 1, Len(d) - 1), e + 1)
      ELSE [neg |-> neg, digs |-> d, e |-> e]

(***************************************************************************)
(* serde_json's reader: a text parsed into a syntax tree.  A tree is        *)
(* [t |-> "Null"], [t |-> "Bool", b], [t |-> "Number", n], [t |-> "String", *)
(* s], [t |-> "Array", a] or [t |-> "Object", m], m the members in the      *)
(* order read, each [k |-> key, v |-> tree].                               *)
(***************************************************************************)
NullTree == [t |-> "Null"]

ParseFail == [ok |-> FALSE, v |-> NullTree, i |-> 0]

ParseOk(v, i) == [ok |-> TRUE, v |-> v, i |-> i]

RECURSIVE SkipWs(_, _)
SkipWs(s, i) ==
  IF i <= Len(s) /\ s[i] \in Whitespace THEN SkipWs(s, i + 1) ELSE i

\* The first index from i on that holds no digit.
RECURSIVE DigitRunEnd(_, _)
DigitRunEnd(s, i) ==
  IF i <= Len(s) /\ s[i] \in Digits THEN DigitRunEnd(s, i + 1) ELSE i

ParseLiteral(s, i, word, v) ==
  IF i + Len(word) - 1 <= Len(s) /\ SubSeq(s, i, i + Len(word) - 1) = word
    THEN ParseOk(v, i + Len(word))
    ELSE ParseFail

\* -? (0 | [1-9][0-9]*) (. [0-9]+)? ([eE] [+-]? [0-9]+)?
\* An integer literal is PosInt or NegInt; one with a fraction or an exponent,
\* and the literal -0, is Float.
ParseNumber(s, i) ==
  LET neg == s[i] = "-"
      j == IF neg THEN i + 1 ELSE i
  IN  IF j > Len(s) \/ s[j] \notin Digits THEN ParseFail
      ELSE
      LET intEnd == IF s[j] = "0" THEN j + 1 ELSE DigitRunEnd(s, j)
          intDigs == SubSeq(s, j, intEnd - 1)
          hasFrac == intEnd <= Len(s) /\ s[intEnd] = "."
          fracEnd == IF hasFrac THEN DigitRunEnd(s, intEnd + 1) ELSE intEnd
          fracDigs == IF hasFrac THEN SubSeq(s, intEnd + 1, fracEnd - 1) ELSE <<>>
          hasExp == fracEnd <= Len(s) /\ s[fracEnd] \in {"e", "E"}
          hasSign == hasExp /\ fracEnd + 1 <= Len(s) /\ s[fracEnd + 1] \in {"+", "-"}
          expStart == IF hasSign THEN fracEnd + 2 ELSE fracEnd + 1
          expEnd == IF hasExp THEN DigitRunEnd(s, expStart) ELSE fracEnd
          expMag == IF hasExp THEN NatOf(SubSeq(s, expStart, expEnd - 1), 1, 0) ELSE 0
          exp == IF hasSign /\ s[fracEnd + 1] = "-" THEN -expMag ELSE expMag
          isInt == ~hasFrac /\ ~hasExp /\ ~(neg /\ intDigs = <<"0">>)
      IN  IF intEnd <= Len(s) /\ s[j] = "0" /\ s[intEnd] \in Digits THEN ParseFail
          ELSE IF hasFrac /\ fracDigs = <<>> THEN ParseFail
          ELSE IF hasExp /\ expEnd = expStart THEN ParseFail
          ELSE IF isInt
            THEN ParseOk([t |-> "Number",
                          n |-> [k |-> IF neg THEN "NegInt" ELSE "PosInt",
                                 neg |-> neg, digs |-> intDigs, e |-> 0]],
                         intEnd)
            ELSE LET d == NormDec(neg, intDigs \o fracDigs, exp - Len(fracDigs))
                 IN  ParseOk([t |-> "Number",
                              n |-> [k |-> "Float", neg |-> d.neg,
                                     digs |-> d.digs, e |-> d.e]],
                             expEnd)

\* The characters of a string from j on, up to its closing quote.  A raw
\* control character ends the parse in error; the escapes \b and \u are not
\* in the model's alphabet.
RECURSIVE ParseStringBody(_, _, _)
ParseStringBody(s, j, acc) ==
  IF j > Len(s) THEN ParseFail
  ELSE IF s[j] = "\"" THEN ParseOk(acc, j + 1)
  ELSE IF s[j] \in {"\t", "\n", "\r"} THEN ParseFail
  ELSE IF s[j] = "\\"
    THEN IF j + 1 > Len(s) THEN ParseFail
         ELSE IF s[j + 1] \in {"\"", "\\", "/"}
           THEN ParseStringBody(s, j + 2, Append(acc, s[j + 1]))
         ELSE IF s[j + 1] = "n" THEN ParseStringBody(s, j + 2, Append(acc, "\n"))
         ELSE IF s[j + 1] = "t" THEN ParseStringBody(s, j + 2, Append(acc, "\t"))
         ELSE IF s[j + 1] = "r" THEN ParseStringBody(s, j + 2, Append(acc, "\r"))
         ELSE ParseFail
  ELSE ParseStringBody(s, j + 1, Append(acc, s[j]))

RECURSIVE ParseValue(_, _)
RECURSIVE ParseElements(_, _, _)
RECURSIVE ParseMembers(_, _, _)

\* The value that starts at i, whitespace already skipped.
ParseValue(s, i) ==
  IF i > Len(s) THEN ParseFail
  ELSE IF s[i] = "n" THEN ParseLiteral(s, i, <<"n", "u", "l", "l">>, NullTree)
  ELSE IF s[i] = "t"
    THEN ParseLiteral(s, i, <<"t", "r", "u", "e">>, [t |-> "Bool", b |-> TRUE])
  ELSE IF s[i] = "f"
    THEN ParseLiteral(s, i, <<"f", "a", "l", "s", "e">>, [t |-> "Bool", b |-> FALSE])
  ELSE IF s[i] = "\""
    THEN LET r == ParseStringBody(s, i + 1, <<>>)
         IN  IF r.ok THEN ParseOk([t |-> "String", s |-> r.v], r.i) ELSE ParseFail
  ELSE IF s[i] = "["
    THEN LET j == SkipWs(s, i + 1)
         IN  IF j <= Len(s) /\ s[j] = "]"
               THEN ParseOk([t |-> "Array", a |-> <<>>], j + 1)
               ELSE ParseElements(s, j, <<>>)
  ELSE IF s[i] = "{"
    THEN LET j == SkipWs(s, i + 1)
         IN  IF j <= Len(s) /\ s[j] = "}"
               THEN ParseOk([t |-> "Object", m |-> <<>>], j + 1)
               ELSE ParseMembers(s, j, <<>>)
  ELSE IF s[i] = "-" \/ s[i] \in Digits THEN ParseNumber(s, i)
  ELSE ParseFail

\* The elements of an array from i on: value (, value)* ]
ParseElements(s, i, acc) ==
  LET r == ParseValue(s, i)
      j == SkipWs(s, r.i)
  IN  IF ~r.ok \/ j > Len(s) THEN ParseFail
      ELSE IF s[j] = "," THEN ParseElements(s, SkipWs(s, j + 1), Append(acc, r.v))
      ELSE IF s[j] = "]" THEN ParseOk([t |-> "Array", a |-> Append(acc, r.v)], j + 1)
      ELSE ParseFail

\* The members of an object from i on: "key" : value (, "key" : value)* }
ParseMembers(s, i, acc) ==
  IF i > Len(s) \/ s[i] # "\"" THEN ParseFail
  ELSE
  LET key == ParseStringBody(s, i + 1, <<>>)
      c == SkipWs(s, key.i)
  IN  IF ~key.ok \/ c > Len(s) \/ s[c] # ":" THEN ParseFail
      ELSE
      LET r == ParseValue(s, SkipWs(s, c + 1))
          j == SkipWs(s, r.i)
          more == Append(acc, [k |-> key.v, v |-> r.v])
      IN  IF ~r.ok \/ j > Len(s) THEN ParseFail
          ELSE IF s[j] = "," THEN ParseMembers(s, SkipWs(s, j + 1), more)
          ELSE IF s[j] = "}" THEN ParseOk([t |-> "Object", m |-> more], j + 1)
          ELSE ParseFail

\* The end of the text after its value: trailing characters are an error.
ParseEnd(s, r) == IF r.ok /\ SkipWs(s, r.i) > Len(s) THEN r ELSE ParseFail

\* A whole text as one JSON value.
ParseText(s) == ParseEnd(s, ParseValue(s, SkipWs(s, 1)))

(***************************************************************************)
(* serde_json::Value: a tree whose objects are maps (a key is held once,   *)
(* the last one read winning), [t |-> "Object", o |-> [key -> Value]].     *)
(***************************************************************************)
RECURSIVE ToValue(_)
ToValue(tree) ==
  IF tree.t = "Array"
    THEN [t |-> "Array", a |-> [i \in 1..Len(tree.a) |-> ToValue(tree.a[i])]]
  ELSE IF tree.t = "Object"
    THEN LET m == tree.m
             LastAt(key) == CHOOSE i \in DOMAIN m :
                              /\ m[i].k = key
                              /\ \A j \in DOMAIN m : m[j].k = key => j <= i
         IN  [t |-> "Object",
              o |-> [key \in {m[i].k : i \in DOMAIN m} |-> ToValue(m[LastAt(key)].v)]]
  ELSE tree

\* The members of a map, in some order.
RECURSIVE MembersOf(_, _)
MembersOf(o, keys) ==
  IF keys = {} THEN <<>>
  ELSE LET key == CHOOSE x \in keys : TRUE
       IN  <<[k |-> key, v |-> o[key]]>> \o MembersOf(o, keys \ {key})

\* A Value read as a tree again, which is what deserializing from a Value does.
RECURSIVE TreeOf(_)
TreeOf(v) ==
  IF v.t = "Array"
    THEN [t |-> "Array", a |-> [i \in 1..Len(v.a) |-> TreeOf(v.a[i])]]
  ELSE IF v.t = "Object"
    THEN LET ms == MembersOf(v.o, DOMAIN v.o)
         IN  [t |-> "Object",
              m |-> [i \in 1..Len(ms) |-> [k |-> ms[i].k, v |-> TreeOf(ms[i].v)]]]
  ELSE v

(***************************************************************************)
(* Deserialize: a tree decoded as the target type T.  The targets are the  *)
(* ones the tests ask for (String, i32, f64, bool, Vec<i32>, CustomStruct) *)
(* with Option<i32> and serde_json::Value, the two that can hold null.     *)
(***************************************************************************)
TargetTypes ==
  {"bool", "i32", "f64", "String", "Vec<i32>", "CustomStruct", "Option<i32>", "Value"}

NoVal == [ty |-> "none"]

DecFail == [ok |-> FALSE, val |-> NoVal]

DecOk(val) == [ok |-> TRUE, val |-> val]

DecodeBool(tree) ==
  IF tree.t = "Bool" THEN DecOk([ty |-> "bool", b |-> tree.b]) ELSE DecFail

\* An integer in range; a floating point number is an invalid type for i32.
DecodeI32(tree) ==
  IF tree.t = "Number" /\ tree.n.k \in {"PosInt", "NegInt"}
    THEN LET r == I32Of(tree.n.neg, tree.n.digs)
         IN  IF r.ok THEN DecOk([ty |-> "i32", i |-> r.v]) ELSE DecFail
    ELSE DecFail

\* Any number, integers included.
DecodeF64(tree) ==
  IF tree.t = "Number"
    THEN LET d == NormDec(tree.n.neg, tree.n.digs, tree.n.e)
         IN  DecOk([ty |-> "f64", neg |-> d.neg, digs |-> d.digs, e |-> d.e])
    ELSE DecFail

DecodeString(tree) ==
  IF tree.t = "String" THEN DecOk([ty |-> "String", s |-> tree.s]) ELSE DecFail

DecodeVecI32(tree) ==
  IF tree.t = "Array" /\ \A i \in DOMAIN tree.a : DecodeI32(tree.a[i]).ok
    THEN DecOk([ty |-> "Vec<i32>",
                xs |-> [i \in 1..Len(tree.a) |-> DecodeI32(tree.a[i]).val.i]])
    ELSE DecFail

DecodeOptionI32(tree) ==
  IF tree.t = "Null" THEN DecOk([ty |-> "Option<i32>", some |-> FALSE, i |-> 0])
  ELSE LET r == DecodeI32(tree)
       IN  IF r.ok THEN DecOk([ty |-> "Option<i32>", some |-> TRUE, i |-> r.val.i])
           ELSE DecFail

NameKey == <<"n", "a", "m", "e">>

ValueKey == <<"v", "a", "l", "u", "e">>

\* The derived visitor of CustomStruct { name: String, value: i32 } over the
\* members of an object: a field given twice is an error, an unknown key is
\* skipped, and a field left out is an error at the end.
RECURSIVE VisitMap(_, _, _)
VisitMap(m, i, acc) ==
  IF i > Len(m)
    THEN IF acc.hasName /\ acc.hasValue
           THEN DecOk([ty |-> "CustomStruct", name |-> acc.name, value |-> acc.value])
           ELSE DecFail
  ELSE IF m[i].k = NameKey
    THEN LET r == DecodeString(m[i].v)
         IN  IF acc.hasName \/ ~r.ok THEN DecFail
             ELSE VisitMap(m, i + 1, [acc EXCEPT !.hasName = TRUE, !.name = r.val.s])
  ELSE IF m[i].k = ValueKey
    THEN LET r == DecodeI32(m[i].v)
         IN  IF acc.hasValue \/ ~r.ok THEN DecFail
             ELSE VisitMap(m, i + 1, [acc EXCEPT !.hasValue = TRUE, !.value = r.val.i])
  ELSE VisitMap(m, i + 1, acc)

\* A struct is read from an object, or from an array of its fields in order.
DecodeCustomStruct(tree) ==
  IF tree.t = "Object"
    THEN VisitMap(tree.m, 1,
                  [hasName |-> FALSE, name |-> <<>>, hasValue |-> FALSE, value |-> 0])
  ELSE IF tree.t = "Array" /\ Len(tree.a) = 2
          /\ DecodeString(tree.a[1]).ok /\ DecodeI32(tree.a[2]).ok
    THEN DecOk([ty |-> "CustomStruct", name |-> DecodeString(tree.a[1]).val.s,
                value |-> DecodeI32(tree.a[2]).val.i])
  ELSE DecFail

Decode(T, tree) ==
  CASE T = "bool" -> DecodeBool(tree)
    [] T = "i32" -> DecodeI32(tree)
    [] T = "f64" -> DecodeF64(tree)
    [] T = "String" -> DecodeString(tree)
    [] T = "Vec<i32>" -> DecodeVecI32(tree)
    [] T = "CustomStruct" -> DecodeCustomStruct(tree)
    [] T = "Option<i32>" -> DecodeOptionI32(tree)
    [] T = "Value" -> DecOk([ty |-> "Value", v |-> ToValue(tree)])

\* serde_json::from_value::<T>(value)
from_value(T, value) ==
  IF T = "Value" THEN DecOk([ty |-> "Value", v |-> value]) ELSE Decode(T, TreeOf(value))

DecodeParsed(T, r) == IF r.ok THEN Decode(T, r.v) ELSE DecFail

\* serde_json::from_str::<T>(text)
from_str(T, text) == DecodeParsed(T, ParseText(text))

(***************************************************************************)
(* Candle<f64> and Candle::to_decimal.  A candle is one OHLC(+volume)      *)
(* observation; an f64 field is the decimal m / 10^e it was written as, a  *)
(* Decimal is mant / 10^scale.                                             *)
(***************************************************************************)
RECURSIVE Pow10(_)
Pow10(n) == IF n <= 0 THEN 1 ELSE 10 * Pow10(n - 1)

\* m / d rounded to the nearest integer, a half going away from zero.
RoundHalfAway(m, d) ==
  IF m >= 0 THEN (2 * m + d) \div (2 * d) ELSE -((2 * (-m) + d) \div (2 * d))

\* One f64 field as a Decimal of `precision` fractional digits.
DecimalOfF64(x, precision) ==
  IF precision >= x.e
    THEN [mant |-> x.m * Pow10(precision - x.e), scale |-> precision]
    ELSE [mant |-> RoundHalfAway(x.m, Pow10(x.e - precision)), scale |-> precision]

\* Candle::to_decimal(precision): every field converted, none dropped.
to_decimal(candle, precision) ==
  [open |-> DecimalOfF64(candle.open, precision),
   high |-> DecimalOfF64(candle.high, precision),
   low |-> DecimalOfF64(candle.low, precision),
   close |-> DecimalOfF64(candle.close, precision),
   volume |-> DecimalOfF64(candle.volume, precision)]

(***************************************************************************)
(* TickersData { symbol, exchange, candles, precision }                    *)
(***************************************************************************)
TickersData_get_candles_iter(ticker) == ticker.candles

TickersData_get_candles(ticker) == ticker.candles

\* A faulty variant: a global default precision instead of the ticker's own.
TickersData_get_candles_decimal_iter_DefaultPrecision(ticker) ==
  [i \in 1..Len(ticker.candles) |-> to_decimal(ticker.candles[i], 2)]

\* self.candles.iter().map(move |candle| candle.to_decimal(precision))
TickersData_get_candles_decimal_iter(ticker) ==
  LET precision == ticker.precision
  IN  [i \in 1..Len(ticker.candles) |-> to_decimal(ticker.candles[i], precision)]

TickersData_get_candles_decimal(ticker) == TickersData_get_candles_decimal_iter(ticker)

(***************************************************************************)
(* FunctionArgs { tickers_data, piped_data, call_arguments } and its       *)
(* construction from the inbound payload.  The payload is the top-level    *)
(* JSON object as read: the fields it holds and what the three mappings    *)
(* hold.                                                                   *)
(***************************************************************************)
EmptyMap == [x \in {} |-> x]

RequiredFields == {"tickers_data", "piped_data", "call_arguments"}

EmptyArgs == [tickers_data |-> EmptyMap, piped_data |-> EmptyMap, call_arguments |-> EmptyMap]

\* The field of the payload, when the payload holds it.
Field(bytes, name, content) == IF name \in bytes.present THEN content ELSE EmptyMap

\* serde_json::from_slice into the derived Deserialize of FunctionArgs: no
\* field has a default, so a payload without one of the three is an error
\* (missing field); a field the struct does not know is skipped.
from_bytes_owned(bytes) ==
  IF RequiredFields \subseteq bytes.present
    THEN [ok |-> TRUE,
          args |-> [tickers_data |-> bytes.tickers_data,
                    piped_data |-> bytes.piped_data,
                    call_arguments |-> bytes.call_arguments]]
    ELSE [ok |-> FALSE, args |-> EmptyArgs]

(***************************************************************************)
(* The accessors.  A Result is Ok(val) or Err(WithReturnCode(msg, code)).  *)
(***************************************************************************)
SymbolNotFoundCode == 1
SourceNotFoundCode == 2
TickerNotFoundCode == 3
ArgumentNotFoundCode == 4
DirectDecodeFailedCode == 5
StringReparseFailedCode == 6

Ok(val) == [ok |-> TRUE, val |-> val, code |-> 0, msg |-> ""]

Err(msg, code) == [ok |-> FALSE, val |-> NoVal, code |-> code, msg |-> msg]

get_labels(args) == [ty |-> "labels", keys |-> DOMAIN args.tickers_data]

\* A faulty variant: the series accessor reporting the record accessor's signal.
get_candles_TickerCode(args, label) ==
  IF label \in DOMAIN args.tickers_data
    THEN Ok([ty |-> "candles", xs |-> args.tickers_data[label].candles])
    ELSE Err("Symbol {} not found", TickerNotFoundCode)

get_candles(args, label) ==
  IF label \in DOMAIN args.tickers_data
    THEN Ok([ty |-> "candles", xs |-> args.tickers_data[label].candles])
    ELSE Err("Symbol {} not found", SymbolNotFoundCode)

\* let candles = self.get_candles(label)?; Ok(candles.iter())
get_candles_iter(args, label) ==
  LET candles == get_candles(args, label)
  IN  IF candles.ok THEN Ok([ty |-> "candles", xs |-> candles.val.xs]) ELSE candles

get_pipe_sources(args) == [ty |-> "sources", keys |-> DOMAIN args.piped_data]

get_data_from_pipe(args, source) ==
  IF source \in DOMAIN args.piped_data
    THEN Ok([ty |-> "text", s |-> args.piped_data[source]])
    ELSE Err("Source {} not found", SourceNotFoundCode)

get_ticker(args, label) ==
  IF label \in DOMAIN args.tickers_data
    THEN Ok([ty |-> "ticker", ticker |-> args.tickers_data[label]])
    ELSE Err("Ticker {} not found", TickerNotFoundCode)

\* let ticker = self.get_ticker(label)?; Ok(ticker.get_candles_decimal_iter())
get_candles_decimal_iter(args, label) ==
  LET ticker == get_ticker(args, label)
  IN  IF ticker.ok
        THEN Ok([ty |-> "decimal candles",
                 xs |-> TickersData_get_candles_decimal_iter(ticker.val.ticker)])
        ELSE ticker

\* Ok(self.get_candles_decimal_iter(label)?.collect())
get_candles_decimal(args, label) ==
  LET it == get_candles_decimal_iter(args, label)
  IN  IF it.ok THEN Ok([ty |-> "decimal candles", xs |-> it.val.xs]) ELSE it

get_call_arguments(args) == [ty |-> "arguments", map |-> args.call_arguments]

(***************************************************************************)
(* get_call_argument::<T>(key): the lookup, the direct decode (stage A)    *)
(* and the string re-parse (stage B).  `stages` records which of the two   *)
(* decodes the call ran.                                                   *)
(***************************************************************************)
\* A faulty variant: an absent key read as null (unwrap_or(Value::Null)).
ArgLookup_OrNull(args, key) ==
  IF key \in DOMAIN args.call_arguments
    THEN Ok(args.call_arguments[key])
    ELSE Ok(NullTree)

\* self.call_arguments.get(key).ok_or(.., 4)
ArgLookup(args, key) ==
  IF key \in DOMAIN args.call_arguments
    THEN Ok(args.call_arguments[key])
    ELSE Err("Call argument {} not found", ArgumentNotFoundCode)

\* Value::as_str
as_str(arg) ==
  IF arg.t = "String" THEN [some |-> TRUE, s |-> arg.s] ELSE [some |-> FALSE, s |-> <<>>]

\* Result::map_err(|e| WithReturnCode::new(.., code))
map_err(d, msg, code) == IF d.ok THEN Ok(d.val) ELSE Err(msg, code)

\* A faulty variant: only texts are decoded, by parsing them.
StageA_TextsOnly(T, arg) ==
  map_err(IF as_str(arg).some THEN from_str(T, arg.s) ELSE DecFail,
          "Failed to parse call argument {}: {}", DirectDecodeFailedCode)

\* A faulty variant: the text of a string argument is parsed first, and the
\* argument decoded directly only when that fails.
StageA_ReparseFirst(T, arg) ==
  map_err(IF as_str(arg).some /\ from_str(T, arg.s).ok
            THEN from_str(T, arg.s)
            ELSE from_value(T, arg),
          "Failed to parse call argument {}: {}", DirectDecodeFailedCode)

\* serde_json::from_value::<T>(arg.clone()).map_err(.., 5)
StageA(T, arg) ==
  map_err(from_value(T, arg),
          "Failed to parse call argument {}: {}", DirectDecodeFailedCode)

\* serde_json::from_str::<T>(arg_str).map_err(.., 6)
StageB(T, arg_str) ==
  map_err(from_str(T, arg_str),
          "Failed to parse call argument {} as string: {}", StringReparseFailedCode)

Staged(res, stages) ==
  [ok |-> res.ok, val |-> res.val, code |-> res.code, msg |-> res.msg, stages |-> stages]

\* A faulty variant: the re-parse's own error is returned.
MatchResStr_ReparseError(res_str, e) == Staged(res_str, <<"A", "B">>)

\* match res_str { Ok(value) => Ok(value), Err(_) => Err(e) }
MatchResStr(res_str, e) ==
  IF res_str.ok THEN Staged(res_str, <<"A", "B">>) ELSE Staged(e, <<"A", "B">>)

\* A faulty variant: no re-parse, the direct decode's error at once.
Fallback_NoReparse(T, arg, e) == Staged(e, <<"A">>)

\* The Err(e) arm: the text of a string argument parsed as T, and e, the
\* direct decode's error, when the argument is no string.
Fallback(T, arg, e) ==
  IF as_str(arg).some
    THEN MatchResStr(StageB(T, as_str(arg).s), e)
    ELSE Staged(e, <<"A">>)

\* match res { Ok(value) => Ok(value), Err(e) => .. }
MatchRes(T, arg, res) ==
  IF res.ok THEN Staged(res, <<"A">>) ELSE Fallback(T, arg, res)

\* The call once the argument is looked up: `?` returns the lookup's error.
WithArg(T, arg) ==
  IF ~arg.ok THEN Staged(arg, <<>>) ELSE MatchRes(T, arg.val, StageA(T, arg.val))

get_call_argument(args, T, key) == WithArg(T, ArgLookup(args, key))

\* A faulty variant: the argument is taken out of the map by the call.
AfterAccess_Take(args, op, name) ==
  IF op = "get_call_argument"
    THEN [args EXCEPT !.call_arguments =
            [k \in DOMAIN args.call_arguments \ {name} |-> args.call_arguments[k]]]
    ELSE args

\* Every accessor takes &self: the three mappings after a call are the
\* mappings before it.
AfterAccess(args, op, name) == args

(***************************************************************************)
(* The inbound payloads                                                    *)
(***************************************************************************)
\* tests: string_arg
Text_hello_world ==
  <<"h", "e", "l", "l", "o", " ", "w", "o", "r", "l", "d">>

\* tests: num_str_arg
Text_12345 ==
  <<"1", "2", "3", "4", "5">>

\* tests: bool_str_arg
Text_true ==
  <<"t", "r", "u", "e">>

\* tests: bool_str_arg_f
Text_false ==
  <<"f", "a", "l", "s", "e">>

\* tests: invalid_num_str_arg
Text_not_a_number ==
  <<"n", "o", "t", "_", "a", "_", "n", "u", "m", "b", "e", "r">>

\* tests: array_str_arg
Text_array ==
  <<"[", "1", ",", " ", "2", ",", " ", "3", "]">>

\* tests: object_str_arg
Text_object ==
  <<"{", "\"", "n", "a", "m", "e", "\"", ":", " ", "\"", "t", "e", "s", "t",
    "\"", ",", " ", "\"", "v", "a", "l", "u", "e", "\"", ":", " ", "1", "0",
    "0", "}">>

\* a text that is itself a quoted JSON string
Text_quoted ==
  <<"\"", "h", "i", "\"">>

Text_null ==
  <<"n", "u", "l", "l">>

Text_float ==
  <<"3", ".", "1", "4">>

Text_exp ==
  <<"1", "e", "2">>

\* whitespace around a value is skipped
Text_padded ==
  <<" ", "4", "2", " ">>

\* trailing characters
Text_trailing ==
  <<"4", "2", "x">>

\* an integer no i32 holds
Text_wide ==
  <<"9", "9", "9", "9", "9", "9", "9", "9", "9", "9", "9">>

\* the fields of CustomStruct as an array
Text_fields ==
  <<"[", "\"", "t", "e", "s", "t", "\"", ",", " ", "1", "0", "0", "]">>

\* a field given twice
Text_twice ==
  <<"{", "\"", "n", "a", "m", "e", "\"", ":", " ", "\"", "a", "\"", ",", " ",
    "\"", "n", "a", "m", "e", "\"", ":", " ", "\"", "b", "\"", ",", " ",
    "\"", "v", "a", "l", "u", "e", "\"", ":", " ", "1", "}">>

Text_empty ==
  <<>>

\* json!(..) of a literal
Json(text) == ToValue(ParseText(text).v)

Str(text) == [t |-> "String", s |-> text]

\* tests: int_arg
Json_42 ==
  Json(
    <<"4", "2">>)

\* tests: float_arg
Json_3_14 ==
  Json(
    <<"3", ".", "1", "4">>)

\* tests: object_arg
Json_object ==
  Json(
    <<"{", "\"", "n", "a", "m", "e", "\"", ":", " ", "\"", "t", "e", "s", "t",
    "\"", ",", " ", "\"", "v", "a", "l", "u", "e", "\"", ":", " ", "1", "0",
    "0", "}">>)

\* tests: array_arg
Json_array ==
  Json(
    <<"[", "1", ",", " ", "2", ",", " ", "3", ",", " ", "4", ",", " ", "5", "]">>)

Json_minus_7 ==
  Json(
    <<"-", "7">>)

\* i32::MAX + 1
Json_wide ==
  Json(
    <<"2", "1", "4", "7", "4", "8", "3", "6", "4", "8">>)

Json_mixed_array ==
  Json(
    <<"[", "1", ",", " ", "\"", "x", "\"", "]">>)

\* an object without the field value
Json_no_value ==
  Json(
    <<"{", "\"", "n", "a", "m", "e", "\"", ":", " ", "\"", "t", "e", "s", "t",
    "\"", "}">>)

\* an object with a field CustomStruct does not have
Json_more_fields ==
  Json(
    <<"{", "\"", "n", "a", "m", "e", "\"", ":", " ", "\"", "t", "e", "s", "t",
    "\"", ",", " ", "\"", "v", "a", "l", "u", "e", "\"", ":", " ", "1", "0",
    "0", ",", " ", "\"", "u", "n", "i", "t", "\"", ":", " ", "n", "u", "l",
    "l", "}">>)

Json_fields ==
  Json(
    <<"[", "\"", "t", "e", "s", "t", "\"", ",", " ", "1", "0", "0", "]">>)

SampleTexts ==
  {Text_hello_world, Text_12345, Text_true, Text_false,
   Text_not_a_number, Text_array, Text_object, Text_quoted,
   Text_null, Text_float, Text_exp, Text_padded,
   Text_trailing, Text_wide, Text_fields, Text_twice,
   Text_empty}

SampleValues ==
  {NullTree, [t |-> "Bool", b |-> TRUE], [t |-> "Bool", b |-> FALSE],
   Json_42, Json_3_14, Json_object, Json_array,
   Json_minus_7, Json_wide, Json_mixed_array, Json_no_value,
   Json_more_fields, Json_fields}
    \cup {Str(text) : text \in SampleTexts}

\* The longest candle series of a payload.
MaxCandles == 2

F64(m, e) == [m |-> m, e |-> e]

\* close 12345.678, the example of the decimal conversion
CandleA ==
  [open |-> F64(120005, 1), high |-> F64(12400125, 3), low |-> F64(11999995, 3),
   close |-> F64(12345678, 3), volume |-> F64(105, 1)]

CandleB ==
  [open |-> F64(15, 3), high |-> F64(2675, 3), low |-> F64(-125, 3),
   close |-> F64(5, 3), volume |-> F64(0, 0)]

CandleC ==
  [open |-> F64(100, 0), high |-> F64(101, 0), low |-> F64(99, 0),
   close |-> F64(1005, 1), volume |-> F64(7, 0)]

SampleCandles == {CandleA, CandleB, CandleC}

CandleSeries == UNION {[1..n -> SampleCandles] : n \in 0..MaxCandles}

Precisions == {0, 2, 5}

Ticker(candles, precision) ==
  [symbol |-> "BTCUSDT", exchange |-> "binance", candles |-> candles,
   precision |-> precision]

\* A label, a pipe source or an argument name.
Names == {"a", "b"}

AllFields == RequiredFields \cup {"unknown_field"}

OneTicker == "a" :> Ticker(<<CandleA, CandleB>>, 2)

OnePipe == "a" :> "piped text"

OneArgument == "a" :> Json_42

Payload(present, tickers_data, piped_data, call_arguments) ==
  [present |-> present,
   tickers_data |-> Field([present |-> present], "tickers_data", tickers_data),
   piped_data |-> Field([present |-> present], "piped_data", piped_data),
   call_arguments |-> Field([present |-> present], "call_arguments", call_arguments)]

\* One argument of every sample value, two arguments, and none.
ArgumentPayloads ==
  {Payload(RequiredFields, EmptyMap, EmptyMap, "a" :> v) : v \in SampleValues}
    \cup {Payload(RequiredFields, EmptyMap, OnePipe,
                  ("a" :> Str(Text_12345)) @@ ("b" :> Json_array)),
          Payload(RequiredFields, EmptyMap, EmptyMap, EmptyMap)}

\* One ticker of every series and precision, and two tickers of any two
\* precisions.
TickerPayloads ==
  {Payload(RequiredFields, "a" :> Ticker(cs, p), OnePipe, OneArgument) :
     cs \in CandleSeries, p \in Precisions}
    \cup {Payload(RequiredFields,
                  ("a" :> Ticker(<<CandleA>>, p)) @@ ("b" :> Ticker(<<CandleA, CandleC>>, q)),
                  EmptyMap, EmptyMap) : p \in Precisions, q \in Precisions}

\* Payloads that leave out top-level fields, or hold one the struct lacks.
PartialPayloads ==
  {Payload(present, OneTicker, OnePipe, OneArgument) : present \in SUBSET AllFields}

Payloads == ArgumentPayloads \cup TickerPayloads \cup PartialPayloads

(***************************************************************************)
(* The state: the payload of the invocation, the FunctionArgs built from   *)
(* it (or the error), the last accessor call with what it returned, and    *)
(* whether that call repeated the query of the call before it.             *)
(***************************************************************************)
VARIABLES bytes, self, last, again

vars == <<bytes, self, last, again>>

NoCall == [op |-> "none", name |-> "", T |-> "", r |-> NoVal]

Init ==
  /\ bytes \in Payloads
  /\ self = from_bytes_owned(bytes)
  /\ last = NoCall
  /\ again = FALSE

\* A call of an accessor on the constructed FunctionArgs.
Call(op, name, T, r) ==
  /\ self.ok
  /\ last' = [op |-> op, name |-> name, T |-> T, r |-> r]
  /\ again' = (op = last.op /\ name = last.name /\ T = last.T)
  /\ self' = [self EXCEPT !.args = AfterAccess(self.args, op, name)]
  /\ UNCHANGED bytes

Call_get_labels == Call("get_labels", "", "", get_labels(self.args))

Call_get_candles ==
  \E label \in Names : Call("get_candles", label, "", get_candles(self.args, label))

Call_get_candles_iter ==
  \E label \in Names :
    Call("get_candles_iter", label, "", get_candles_iter(self.args, label))

Call_get_pipe_sources == Call("get_pipe_sources", "", "", get_pipe_sources(self.args))

Call_get_data_from_pipe ==
  \E source \in Names :
    Call("get_data_from_pipe", source, "", get_data_from_pipe(self.args, source))

Call_get_ticker ==
  \E label \in Names : Call("get_ticker", label, "", get_ticker(self.args, label))

Call_get_candles_decimal_iter ==
  \E label \in Names :
    Call("get_candles_decimal_iter", label, "", get_candles_decimal_iter(self.args, label))

Call_get_candles_decimal ==
  \E label \in Names :
    Call("get_candles_decimal", label, "", get_candles_decimal(self.args, label))

Call_get_call_arguments ==
  Call("get_call_arguments", "", "", get_call_arguments(self.args))

Call_get_call_argument ==
  \E key \in Names, T \in TargetTypes :
    Call("get_call_argument", key, T, get_call_argument(self.args, T, key))

Next ==
  \/ Call_get_labels
  \/ Call_get_candles
  \/ Call_get_candles_iter
  \/ Call_get_pipe_sources
  \/ Call_get_data_from_pipe
  \/ Call_get_ticker
  \/ Call_get_candles_decimal_iter
  \/ Call_get_candles_decimal
  \/ Call_get_call_arguments
  \/ Call_get_call_argument

Spec == Init /\ [][Next]_vars

(***************************************************************************)
(* What the claims speak of                                                *)
(***************************************************************************)
ArgCall == last.op = "get_call_argument"

\* The last call named an argument the store holds.
ArgPresent == ArgCall /\ last.name \in DOMAIN self.args.call_arguments

StoredArg == self.args.call_arguments[last.name]

DigitChar(d) ==
  CASE d = 0 -> "0" [] d = 1 -> "1" [] d = 2 -> "2" [] d = 3 -> "3" [] d = 4 -> "4"
    [] d = 5 -> "5" [] d = 6 -> "6" [] d = 7 -> "7" [] d = 8 -> "8" [] d = 9 -> "9"

\* The decimal digits of the magnitude of n, n <= 0.
RECURSIVE DigitsOfNeg(_)
DigitsOfNeg(n) ==
  LET d == (10 - (n % 10)) % 10
  IN  IF n > -10 THEN <<DigitChar(d)>>
      ELSE Append(DigitsOfNeg((n + d) \div 10), DigitChar(d))

\* An i32 written as a JSON number.
NumberOfI32(i) ==
  [t |-> "Number",
   n |-> [k |-> IF i < 0 THEN "NegInt" ELSE "PosInt", neg |-> i < 0,
          digs |-> DigitsOfNeg(IF i > 0 THEN -i ELSE i), e |-> 0]]

\* A decoded value written as JSON again (Serialize).
Encode(val) ==
  CASE val.ty = "bool" -> [t |-> "Bool", b |-> val.b]
    [] val.ty = "i32" -> NumberOfI32(val.i)
    [] val.ty = "f64" ->
         [t |-> "Number",
          n |-> [k |-> "Float", neg |-> val.neg, digs |-> val.digs, e |-> val.e]]
    [] val.ty = "String" -> [t |-> "String", s |-> val.s]
    [] val.ty = "Vec<i32>" ->
         [t |-> "Array", a |-> [i \in 1..Len(val.xs) |-> NumberOfI32(val.xs[i])]]
    [] val.ty = "CustomStruct" ->
         [t |-> "Object",
          o |-> (NameKey :> [t |-> "String", s |-> val.name])
                  @@ (ValueKey :> NumberOfI32(val.value))]
    [] val.ty = "Option<i32>" -> IF val.some THEN NumberOfI32(val.i) ELSE NullTree
    [] val.ty = "Value" -> val.v
    [] OTHER -> NullTree

\* A JSON integer that an i32 holds.
NativeI32(v) ==
  /\ v.t = "Number"
  /\ v.n.k \in {"PosInt", "NegInt"}
  /\ I32Of(v.n.neg, v.n.digs).ok

\* A native, non-textual JSON value of the shape of T.
Matches(T, v) ==
  CASE T = "bool" -> v.t = "Bool"
    [] T = "i32" -> NativeI32(v)
    [] T = "f64" -> v.t = "Number" /\ v.n.k = "Float"
    [] T = "String" -> FALSE
    [] T = "Vec<i32>" -> v.t = "Array" /\ \A i \in DOMAIN v.a : NativeI32(v.a[i])
    [] T = "CustomStruct" ->
         /\ v.t = "Object"
         /\ DOMAIN v.o = {NameKey, ValueKey}
         /\ v.o[NameKey].t = "String"
         /\ NativeI32(v.o[ValueKey])
    [] T = "Option<i32>" -> NativeI32(v)
    [] T = "Value" -> v.t \in {"Bool", "Number", "Array", "Object"}

\* The targets that hold null.
NullableTargets == {"Option<i32>", "Value"}

\* The accessors that look a ticker label up.
SeriesOps == {"get_candles", "get_candles_iter"}

RecordOps == {"get_ticker", "get_candles_decimal_iter", "get_candles_decimal"}

LabelAbsent == last.op \in SeriesOps \cup RecordOps /\ last.name \notin DOMAIN self.args.tickers_data

\* What an accessor returns on the mappings `args`.
ResultOf(op, name, T, args) ==
  CASE op = "get_labels" -> get_labels(args)
    [] op = "get_candles" -> get_candles(args, name)
    [] op = "get_candles_iter" -> get_candles_iter(args, name)
    [] op = "get_pipe_sources" -> get_pipe_sources(args)
    [] op = "get_data_from_pipe" -> get_data_from_pipe(args, name)
    [] op = "get_ticker" -> get_ticker(args, name)
    [] op = "get_candles_decimal_iter" -> get_candles_decimal_iter(args, name)
    [] op = "get_candles_decimal" -> get_candles_decimal(args, name)
    [] op = "get_call_arguments" -> get_call_arguments(args)
    [] op = "get_call_argument" -> get_call_argument(args, T, name)

(***************************************************************************)
(* The claims                                                              *)
(***************************************************************************)

\* C1: an argument stored as a native non-textual JSON value of the shape of
\* the target type T is returned by get_call_argument::<T> from the direct
\* decode alone (no re-parse is run), and the value returned is the stored
\* one: written as JSON again it is the stored value.
C1_StageAIdentity ==
  (ArgPresent /\ Matches(last.T, StoredArg))
    => /\ last.r.ok
       /\ last.r.stages = <<"A">>
       /\ Encode(last.r.val) = StoredArg

C1_Witness ==
  /\ ArgPresent
  /\ last.T = "CustomStruct"
  /\ StoredArg = Json_object
  /\ last.r.ok
  /\ last.r.val.value = 100

\* C2, as claimed: for an argument stored as a string s and any target T that
\* s parses to, get_call_argument::<T> succeeds with the result of parsing s
\* as T, T = String and a quoted s included.
C2_ReparseForEveryTarget ==
  (ArgPresent /\ StoredArg.t = "String" /\ from_str(last.T, StoredArg.s).ok)
    => /\ last.r.ok
       /\ last.r.val = from_str(last.T, StoredArg.s).val

\* C2, amended: for an argument stored as a string s and a target T that the
\* direct decode of a string fails for, if s parses as JSON of type T then
\* get_call_argument::<T> succeeds, after both stages, with the result of
\* parsing s as T.
C2_ReparseWhenDirectDecodeFails ==
  (/\ ArgPresent
   /\ StoredArg.t = "String"
   /\ ~from_value(last.T, StoredArg).ok
   /\ from_str(last.T, StoredArg.s).ok)
    => /\ last.r.ok
       /\ last.r.stages = <<"A", "B">>
       /\ last.r.val = from_str(last.T, StoredArg.s).val

C2_Witness ==
  /\ ArgPresent
  /\ StoredArg = Str(Text_object)
  /\ last.T = "CustomStruct"
  /\ last.r.ok
  /\ last.r.val.name = <<"t", "e", "s", "t">>

\* C3: a name that is no key of call_arguments fails with the
\* argument-not-found signal (4) for every target type, and neither decode
\* is run.
C3_AbsentIsArgumentNotFound ==
  (ArgCall /\ ~ArgPresent)
    => /\ ~last.r.ok
       /\ last.r.code = ArgumentNotFoundCode
       /\ last.r.stages = <<>>

C3_Witness ==
  /\ ArgCall
  /\ ~ArgPresent
  /\ self.args.call_arguments # EmptyMap
  /\ last.T = "Option<i32>"
  /\ ~last.r.ok

\* C4, as claimed: a name present with the value null fails, for a target
\* that cannot hold null, with the signal of an absent name (4).
C4_NullIsArgumentNotFound ==
  (ArgPresent /\ StoredArg.t = "Null" /\ last.T \notin NullableTargets)
    => /\ ~last.r.ok
       /\ last.r.code = ArgumentNotFoundCode

\* C5: when the argument is present, the direct decode fails, and the value
\* is no string or its re-parse fails too, the error returned is the direct
\* decode's (signal 5); the re-parse's signal (6) is returned by no call.
C5_DirectDecodeErrorSurfaces ==
  /\ last.op # "none" /\ last.op \notin {"get_labels", "get_pipe_sources", "get_call_arguments"}
       => last.r.code # StringReparseFailedCode
  /\ (/\ ArgPresent
      /\ ~from_value(last.T, StoredArg).ok
      /\ (StoredArg.t # "String" \/ ~from_str(last.T, StoredArg.s).ok))
       => /\ ~last.r.ok
          /\ last.r.code = DirectDecodeFailedCode
          /\ last.r.msg = "Failed to parse call argument {}: {}"

C5_Witness ==
  /\ ArgPresent
  /\ StoredArg = Str(Text_not_a_number)
  /\ last.T = "i32"
  /\ last.r.stages = <<"A", "B">>
  /\ ~last.r.ok

\* C6: an argument stored as a string, whatever its text, is returned to a
\* String target by the direct decode, and the String returned is the
\* stored text itself.
C6_StringTargetReturnsText ==
  (ArgPresent /\ StoredArg.t = "String" /\ last.T = "String")
    => /\ last.r.ok
       /\ last.r.stages = <<"A">>
       /\ last.r.val = [ty |-> "String", s |-> StoredArg.s]

C6_Witness ==
  /\ ArgPresent
  /\ StoredArg = Str(Text_quoted)
  /\ last.T = "String"
  /\ last.r.ok
  /\ last.r.val.s = Text_quoted

C8_DecimalSeries ==
  last.op = "get_candles_decimal"
    => IF last.name \in DOMAIN self.args.tickers_data
         THEN LET ticker == self.args.tickers_data[last.name]
              IN  /\ last.r.ok
                  /\ Len(last.r.val.xs) = Len(ticker.candles)
                  /\ \A i \in 1..Len(ticker.candles) :
                       last.r.val.xs[i] = to_decimal(ticker.candles[i], ticker.precision)
         ELSE ~last.r.ok

C8_Witness ==
  /\ last.op = "get_candles_decimal"
  /\ last.name = "b"
  /\ DOMAIN self.args.tickers_data = {"a", "b"}
  /\ self.args.tickers_data["a"].precision = 2
  /\ self.args.tickers_data["b"].precision = 0
  /\ last.r.ok
  /\ Len(last.r.val.xs) = 2
  /\ last.r.val.xs[1].close = [mant |-> 12346, scale |-> 0]

\* C9, as claimed: a payload without one of the three top-level mappings is
\* constructed into a FunctionArgs whose missing mapping is empty.
C9_MissingMappingIsEmpty ==
  ~(RequiredFields \subseteq bytes.present)
    => /\ self.ok
       /\ \A f \in RequiredFields \ bytes.present : self.args[f] = EmptyMap

\* C10: after any sequence of accessor calls the three mappings are the ones
\* construction built, and what a call returned is what its accessor returns
\* on them: a query repeated returns what it returned before.
C10_Frame ==
  /\ self = from_bytes_owned(bytes)
  /\ last.op # "none"
       => last.r = ResultOf(last.op, last.name, last.T, from_bytes_owned(bytes).args)

C10_Witness ==
  /\ again
  /\ ArgPresent
  /\ last.T = "i32"
  /\ StoredArg = Str(Text_12345)
  /\ last.r.ok
  /\ last.r.val.i = 12345

====
